---- MODULE Spec2Model ----
(***************************************************************************)
(* State-machine model of github.com/gretro/go-lifecycle.                  *)
(*                                                                         *)
(* Part 1: GracefulShutdown (the coordinator of src/README.md:97-376).     *)
(*   Goroutines are interleaved at their synchronisation points: mutex     *)
(*   operations, channel operations, context cancellation and sleeps.      *)
(*   Time is a discrete clock: Tick is the passage of one time unit and    *)
(*   decrements the running timers (the deadline of the context made by    *)
(*   Shutdown and the time.Sleep of the collection loop).                  *)
(*                                                                         *)
(* Part 2: ReadyCheck and its component checks (src/pulse-check.go,        *)
(*   src/poll-check.go, src/push-check.go). The registry is a sequence of  *)
(*   checks; every `go poll.Start()` is a goroutine of its own; RdyTick is  *)
(*   the passage of one time unit for the sleeps of the polling loops and  *)
(*   the age of the recorded pulses.                                       *)
(***************************************************************************)
EXTENDS Integers, FiniteSets, Sequences, TLC

\* ---------------------------------------------------------------- bounds
\* options.Timeout and options.PollDuration, in clock units
Timeout == 2
PollDuration == 1

Names == {"A", "B"}
Callers == {1, 2}       \* goroutines calling Shutdown() / WaitForShutdown()
ComponentErrs == {"e1", "e2"}              \* errors a component may report
ErrOf(name) == IF name = "A" THEN "e1" ELSE "e2"
ValuesOf(name) == {"nil", ErrOf(name)}     \* what shutdownFn of name may return
NoChan == "nochan"                         \* no channel / nil channel
FirstChan == "first"                       \* the first channel made for a name
LaterChan == "later"                       \* any channel made for it afterwards

\* ReadyCheck: the registry holds at most MaxChecks checks; poll delays are
\* 1..PollDelay and pulse expirations 0..Expiration clock units; the history
\* of a polling loop is counted up to MaxElapsed clock units.
MaxChecks == 2
PollDelay == 1
Expiration == 1
MaxElapsed == 3

Checks == 1..MaxChecks
CheckNames == {"x", "y"}
Loops == {1, 2}         \* goroutines running PollComponentCheck.Start()
Threads == {1, 2}       \* goroutines calling methods of the ReadyCheck
NoPulse == -1           \* lastPulse.Load() == nil
MaxAge == Expiration + 1

VARIABLES
    \* ---- GracefulShutdown fields
    components,      \* gs.components: name -> channel (NoChan: no entry)
    disposed,        \* gs.disposed
    appDone,         \* gs.appContext is cancelled (Done() is closed)
    componentMutex,  \* gs.componentMutex: the caller holding it, 0 when free
    waitMutex,       \* gs.waitMutex: TRUE when locked (a sync.Mutex has no owner)
    crashed,         \* the runtime aborted the process (fatal error)
    \* ---- channels and the code that holds their sending end
    held,            \* the channel returned for name (NoChan: none returned)
    kind,            \* who holds it: "none" | "manual" | "fn"
    task,            \* position of the holder of the sending end
    value,           \* the value the holder sends
    fnRet,           \* what shutdownFn returned ("none": not returned)
    fnCalls,         \* invocations of shutdownFn
    regResult,       \* what the last RegisterComponent call returned
    \* ---- goroutines calling Shutdown() / WaitForShutdown()
    pc, mode, result,
    componentErrors,       \* local of waitForComponents, returned in ShutdownError
    remainingComponents,   \* local of waitForComponents
    timeLeft,              \* time until ctx (context.WithTimeout) is done
    sleepLeft,             \* time until time.Sleep(PollDuration) returns
    \* ---- history (not program state)
    received,        \* what the collection loop received from name
    report,          \* when name reported: "none" | "early" | "late"
    loopComponents,  \* the names the collection loop started with
    collections,     \* how many times the collection loop was entered
    \* ---- ReadyCheck and the checks it holds (a check is its position)
    rdyComponents,   \* rdy.components: [name, kind, pollDelay, expiration]
    isReady,         \* isReady of a poll / push check; the answer of a custom one
    isActive,        \* PollComponentCheck.isActive
    lastPulse,       \* time.Since(*lastPulse), NoPulse while the pointer is nil
    \* ---- goroutines running PollComponentCheck.Start()
    loopPc,          \* "none" | "spawned" | "test" | "invoke" | "probe" | "sleep" | "exited"
    loopOf,          \* the check the goroutine polls (0: none)
    loopSleep,       \* time until time.Sleep(pollDelay) returns
    \* ---- results of the last Ready() / Explain() on the present state
    readyResult,     \* "none" | "true" | "false"
    explanation,     \* [called, m]: m maps a name to "absent" | "true" | "false"
    \* ---- history (not program state)
    invoked,         \* probe invocations of the loop
    elapsed,         \* time since the loop marked its check active
    slow,            \* time passed while a probe of the loop was running
    stopSeen,        \* Stop() was called while this loop alone ran, no Start() since
    extra,           \* probe invocations of the loop since that Stop()
    lastProbe,       \* result of the last completed probe: "none" | "true" | "false"
    stopPending,     \* Stop() was requested and no Start() was issued since
    pulsed,          \* RecordPulse() was called on the check
    \* ---- rdy.componentsMutex and the goroutines calling methods of the ReadyCheck
    rwWriter,        \* the goroutine holding rdy.componentsMutex for writing (0: none)
    rwReaders,       \* the goroutines holding rdy.componentsMutex for reading
    opPc,            \* "idle" | "append" | "ready" | "explain" | "start" | "stop"
    opArg,           \* the check a registering goroutine is about to append
    seen,            \* the slice header a ranging goroutine read: [polls, wild]
    rdyFault         \* a range ran over memory that is not the collection

gsVars == <<components, disposed, appDone, componentMutex, waitMutex, crashed,
            held, kind, task, value, fnRet, fnCalls, regResult,
            pc, mode, result, componentErrors, remainingComponents,
            timeLeft, sleepLeft,
            received, report, loopComponents, collections>>

rdyFields == <<rdyComponents, isReady, isActive, lastPulse>>
loopVars == <<loopPc, loopOf, loopSleep>>
rdyResults == <<readyResult, explanation>>
loopHist == <<invoked, elapsed, slow, stopSeen, extra>>
checkHist == <<lastProbe, stopPending, pulsed>>
lockVars == <<rwWriter, rwReaders, opPc, opArg, seen, rdyFault>>
rdyVars == <<rdyFields, loopVars, rdyResults, loopHist, checkHist, lockVars>>

vars == <<gsVars, rdyVars>>

gsFields == <<components, disposed, appDone, componentMutex, waitMutex, crashed>>
chanVars == <<held, kind, task, value, fnRet, fnCalls, regResult>>
callVars == <<pc, mode, result, componentErrors, remainingComponents,
              timeLeft, sleepLeft>>
histVars == <<received, report, loopComponents, collections>>

NoErrors == [n \in Names |-> "absent"]
NoComponents == [n \in Names |-> NoChan]
NoExplanation == [called |-> FALSE, m |-> [n \in CheckNames |-> "absent"]]
NoCheck == [name |-> "", kind |-> "none", pollDelay |-> 0, expiration |-> 0]
NoHeader == [polls |-> {}, wild |-> FALSE]

\* NewReadyCheck: an empty registry; no polling goroutine.
RdyInit ==
    /\ rdyComponents = <<>>
    /\ isReady = [i \in Checks |-> FALSE]
    /\ isActive = [i \in Checks |-> FALSE]
    /\ lastPulse = [i \in Checks |-> NoPulse]
    /\ loopPc = [g \in Loops |-> "none"]
    /\ loopOf = [g \in Loops |-> 0]
    /\ loopSleep = [g \in Loops |-> 0]
    /\ readyResult = "none"
    /\ explanation = NoExplanation
    /\ invoked = [g \in Loops |-> 0]
    /\ elapsed = [g \in Loops |-> 0]
    /\ slow = [g \in Loops |-> FALSE]
    /\ stopSeen = [g \in Loops |-> FALSE]
    /\ extra = [g \in Loops |-> 0]
    /\ lastProbe = [i \in Checks |-> "none"]
    /\ stopPending = [i \in Checks |-> FALSE]
    /\ pulsed = [i \in Checks |-> FALSE]
    /\ rwWriter = 0
    /\ rwReaders = {}
    /\ opPc = [t \in Threads |-> "idle"]
    /\ opArg = [t \in Threads |-> NoCheck]
    /\ seen = [t \in Threads |-> NoHeader]
    /\ rdyFault = FALSE

\* NewGracefulShutdownWithOptions: no component, not disposed, context live.
Init ==
    /\ RdyInit
    /\ components = NoComponents
    /\ disposed = FALSE
    /\ appDone = FALSE
    /\ componentMutex = 0
    /\ waitMutex = FALSE
    /\ crashed = FALSE
    /\ held = NoComponents
    /\ kind = [n \in Names |-> "none"]
    /\ task = [n \in Names |-> "none"]
    /\ value = [n \in Names |-> "none"]
    /\ fnRet = [n \in Names |-> "none"]
    /\ fnCalls = [n \in Names |-> 0]
    /\ regResult = [err |-> "none", chan |-> NoChan]
    /\ pc = [p \in Callers |-> "idle"]
    /\ mode = [p \in Callers |-> "none"]
    /\ result = [p \in Callers |-> "none"]
    /\ componentErrors = [p \in Callers |-> NoErrors]
    /\ remainingComponents = [p \in Callers |-> NoComponents]
    /\ timeLeft = [p \in Callers |-> 0]
    /\ sleepLeft = [p \in Callers |-> 0]
    /\ received = [n \in Names |-> "none"]
    /\ report = [n \in Names |-> "none"]
    /\ loopComponents = {}
    /\ collections = 0

\* ------------------------------------------------------------ registration

ComponentMutexFree_Unguarded == TRUE

\* gs.componentMutex.Lock() can be taken.
ComponentMutexFree == componentMutex = 0

\* `make(chan error)`: a channel distinct from every channel made before. The
\* channels of different names never meet, so a name's channels are told
\* apart as the first one made for it and the ones made later.
MakeChan(name) == IF held[name] = NoChan THEN FirstChan ELSE LaterChan

RegisterStore_Overwrite(name, c) == [components EXCEPT ![name] = c]

\* gs.components after RegisterComponent(name) made channel c: the entry is
\* written only when the name has none.
RegisterStore(name, c) ==
    IF components[name] # NoChan THEN components
    ELSE [components EXCEPT ![name] = c]

RegisterErr(name) ==
    IF components[name] # NoChan THEN "ErrComponentAlreadyRegistered" ELSE "nil"

\* The body of RegisterComponent, under componentMutex; holder is the code
\* that receives the returned channel.
Register(name, holder) ==
    /\ ComponentMutexFree
    /\ LET c == MakeChan(name)
           err == RegisterErr(name)
       IN /\ components' = RegisterStore(name, c)
          /\ regResult' = [err |-> err,
                           chan |-> IF err = "nil" THEN c ELSE NoChan]
          /\ IF err = "nil"
             THEN /\ held' = [held EXCEPT ![name] = c]
                  /\ kind' = [kind EXCEPT ![name] = holder]
                  /\ task' = [task EXCEPT ![name] =
                                 IF holder = "fn" THEN "waitDone" ELSE "holding"]
             ELSE UNCHANGED <<held, kind, task>>
    /\ UNCHANGED <<disposed, appDone, componentMutex, waitMutex, crashed,
                   value, fnRet, fnCalls>>
    /\ UNCHANGED callVars
    /\ UNCHANGED histVars
    /\ UNCHANGED rdyVars

\* RegisterComponent called by user code, which keeps the channel.
RegisterComponent(name) ==
    /\ ~crashed
    /\ Register(name, "manual")

\* RegisterComponent, then the goroutine is spawned (it starts blocked on Done).
RegisterComponentWithFn(name) ==
    /\ ~crashed
    /\ Register(name, "fn")

\* ------------------------------------------------ holders of a ShutdownChan
\* The goroutine of RegisterComponentWithFn sends on its channel; the code
\* that got a channel from RegisterComponent closes it (a send made by user
\* code differs from the goroutine's send only in not waiting for Done).

\* Whether a report made now comes before the deadline of the collecting call.
ReportTime ==
    IF disposed \/ \E p \in Callers : pc[p] \in {"poll", "sleep"} /\ timeLeft[p] = 0
    THEN "late" ELSE "early"

DoneFired_NoWait == TRUE

\* gs.appContext.Done() is closed.
DoneFired == appDone

\* <-gs.appContext.Done() returns and shutdownFn is invoked.
StartFn(name) ==
    /\ ~crashed
    /\ task[name] = "waitDone"
    /\ DoneFired
    /\ task' = [task EXCEPT ![name] = "running"]
    /\ fnCalls' = [fnCalls EXCEPT ![name] = @ + 1]
    /\ UNCHANGED <<held, kind, value, fnRet, regResult>>
    /\ UNCHANGED gsFields
    /\ UNCHANGED callVars
    /\ UNCHANGED histVars
    /\ UNCHANGED rdyVars

\* shutdownFn returns v; the goroutine blocks in `shutdownChan <- err`.
FnReturn(name, v) ==
    /\ ~crashed
    /\ task[name] = "running"
    /\ fnRet' = [fnRet EXCEPT ![name] = v]
    /\ value' = [value EXCEPT ![name] = v]
    /\ task' = [task EXCEPT ![name] = "sending"]
    /\ report' = [report EXCEPT ![name] = ReportTime]
    /\ UNCHANGED <<held, kind, fnCalls, regResult>>
    /\ UNCHANGED gsFields
    /\ UNCHANGED callVars
    /\ UNCHANGED <<received, loopComponents, collections>>
    /\ UNCHANGED rdyVars

\* User code holding the channel of RegisterComponent closes it.
ManualClose(name) ==
    /\ ~crashed
    /\ task[name] = "holding"
    /\ task' = [task EXCEPT ![name] = "closed"]
    /\ report' = [report EXCEPT ![name] = ReportTime]
    /\ UNCHANGED <<held, kind, value, fnRet, fnCalls, regResult>>
    /\ UNCHANGED gsFields
    /\ UNCHANGED callVars
    /\ UNCHANGED <<received, loopComponents, collections>>
    /\ UNCHANGED rdyVars

\* The context given to NewGracefulShutdown is cancelled.
ParentCancel ==
    /\ ~crashed
    /\ ~appDone
    /\ appDone' = TRUE
    /\ UNCHANGED <<components, disposed, componentMutex, waitMutex, crashed>>
    /\ UNCHANGED chanVars
    /\ UNCHANGED callVars
    /\ UNCHANGED histVars
    /\ UNCHANGED rdyVars

\* ------------------------------------------------------ waitForComponents

AlreadyDisposed_Never == FALSE

\* `if gs.disposed` at the head of waitForComponents.
AlreadyDisposed == disposed

DeadlineElapsed_Never(p) == FALSE

\* `case <-ctx.Done()` of the loop's first select.
DeadlineElapsed(p) == timeLeft[p] = 0

TimeoutCauses_Forgotten(errs, rem) == errs

\* At the deadline every remaining component gets the timeout cause.
TimeoutCauses(errs, rem) ==
    [n \in Names |-> IF rem[n] # NoChan THEN "ErrShutdownTimeout" ELSE errs[n]]

\* The non-blocking receive on channel c of component name: the value of a
\* blocked sender, nil from a closed channel, "none" for the default case.
Recv(name, c) ==
    IF c = held[name] /\ task[name] = "sending" THEN value[name]
    ELSE IF c = held[name] /\ task[name] = "closed" THEN "nil"
    ELSE "none"

RecordErr_Dropped(old, v) == old

\* `if err != nil { componentErrors[componentName] = err }`
RecordErr(old, v) == IF v \in ComponentErrs THEN v ELSE old

LoopResult_AlwaysError(errs) == "ShutdownError"

\* What the loop returns once no component remains.
LoopResult(errs) ==
    IF \A n \in Names : errs[n] = "absent" THEN "nil" ELSE "ShutdownError"

\* Where the caller continues when waitForComponents and Shutdown return.
AfterShutdown(p) == IF mode[p] = "wait" THEN "wret" ELSE "idle"

ShutdownFunc_Skipped == appDone

\* gs.shutdownFunc(): the cancel function of the application context; the
\* done-signal is fired after the call, whatever it was before.
ShutdownFunc == TRUE

\* gs.Shutdown(): shutdownFunc() fires the done-signal, the timeout context
\* is made, and the goroutine goes for the component mutex.
ShutdownStart(p) ==
    /\ ~crashed
    /\ pc[p] = "idle"
    /\ appDone' = ShutdownFunc
    /\ pc' = [pc EXCEPT ![p] = "lock"]
    /\ mode' = [mode EXCEPT ![p] = "shutdown"]
    /\ result' = [result EXCEPT ![p] = "none"]
    /\ componentErrors' = [componentErrors EXCEPT ![p] = NoErrors]
    /\ timeLeft' = [timeLeft EXCEPT ![p] = Timeout]
    /\ UNCHANGED <<components, disposed, componentMutex, waitMutex, crashed>>
    /\ UNCHANGED chanVars
    /\ UNCHANGED <<remainingComponents, sleepLeft>>
    /\ UNCHANGED <<received, report, loopComponents, collections>>
    /\ UNCHANGED rdyVars

\* waitForComponents takes the mutex; a disposed coordinator returns at once
\* (the deferred functions set disposed and unlock), otherwise the locals of
\* the loop are made.
WfcLock(p) ==
    /\ ~crashed
    /\ pc[p] = "lock"
    /\ ComponentMutexFree
    /\ IF AlreadyDisposed
       THEN /\ result' = [result EXCEPT ![p] = "ErrAlreadyShutdown"]
            /\ disposed' = TRUE
            /\ pc' = [pc EXCEPT ![p] = AfterShutdown(p)]
            /\ timeLeft' = [timeLeft EXCEPT ![p] = 0]
            /\ UNCHANGED <<componentMutex, componentErrors, remainingComponents,
                           loopComponents, collections>>
       ELSE /\ componentMutex' = p
            /\ componentErrors' = [componentErrors EXCEPT ![p] = NoErrors]
            /\ remainingComponents' = [remainingComponents EXCEPT ![p] = components]
            /\ pc' = [pc EXCEPT ![p] = "poll"]
            /\ loopComponents' = {n \in Names : components[n] # NoChan}
            /\ collections' = collections + 1
            /\ UNCHANGED <<result, disposed, timeLeft>>
    /\ UNCHANGED <<components, appDone, waitMutex, crashed>>
    /\ UNCHANGED chanVars
    /\ UNCHANGED <<mode, sleepLeft>>
    /\ UNCHANGED <<received, report>>
    /\ UNCHANGED rdyVars

\* One iteration of the loop: the deadline check, then a non-blocking receive
\* on every remaining channel; it returns or goes to sleep.
Poll(p) ==
    /\ ~crashed
    /\ pc[p] = "poll"
    /\ LET rem == remainingComponents[p]
           got == [n \in Names |->
                     IF rem[n] # NoChan THEN Recv(n, rem[n]) ELSE "none"]
           future == [n \in Names |->
                     IF got[n] = "none" THEN rem[n] ELSE NoChan]
           errs == [n \in Names |-> RecordErr(componentErrors[p][n], got[n])]
       IN IF DeadlineElapsed(p)
          THEN /\ componentErrors' = [componentErrors EXCEPT ![p] =
                                         TimeoutCauses(componentErrors[p], rem)]
               /\ result' = [result EXCEPT ![p] = "ShutdownError"]
               /\ disposed' = TRUE
               /\ componentMutex' = 0
               /\ pc' = [pc EXCEPT ![p] = AfterShutdown(p)]
               /\ remainingComponents' = [remainingComponents EXCEPT ![p] = NoComponents]
               /\ UNCHANGED <<task, received, sleepLeft, timeLeft>>
          ELSE /\ componentErrors' = [componentErrors EXCEPT ![p] = errs]
               /\ task' = [n \in Names |->
                             IF got[n] # "none" /\ task[n] = "sending"
                             THEN "sent" ELSE task[n]]
               /\ received' = [n \in Names |->
                             IF got[n] # "none" THEN got[n] ELSE received[n]]
               /\ IF \A n \in Names : future[n] = NoChan
                  THEN /\ result' = [result EXCEPT ![p] = LoopResult(errs)]
                       /\ disposed' = TRUE
                       /\ componentMutex' = 0
                       /\ pc' = [pc EXCEPT ![p] = AfterShutdown(p)]
                       /\ remainingComponents' =
                              [remainingComponents EXCEPT ![p] = NoComponents]
                       /\ timeLeft' = [timeLeft EXCEPT ![p] = 0]
                       /\ UNCHANGED sleepLeft
                  ELSE /\ remainingComponents' =
                              [remainingComponents EXCEPT ![p] = future]
                       /\ sleepLeft' = [sleepLeft EXCEPT ![p] = PollDuration]
                       /\ pc' = [pc EXCEPT ![p] = "sleep"]
                       /\ UNCHANGED <<result, disposed, componentMutex, timeLeft>>
    /\ UNCHANGED <<components, appDone, waitMutex, crashed>>
    /\ UNCHANGED <<held, kind, value, fnRet, fnCalls, regResult>>
    /\ UNCHANGED mode
    /\ UNCHANGED <<report, loopComponents, collections>>
    /\ UNCHANGED rdyVars

\* time.Sleep(gs.options.PollDuration) returns.
Wake(p) ==
    /\ ~crashed
    /\ pc[p] = "sleep"
    /\ sleepLeft[p] = 0
    /\ pc' = [pc EXCEPT ![p] = "poll"]
    /\ UNCHANGED gsFields
    /\ UNCHANGED chanVars
    /\ UNCHANGED <<mode, result, componentErrors, remainingComponents,
                   timeLeft, sleepLeft>>
    /\ UNCHANGED histVars
    /\ UNCHANGED rdyVars

\* ----------------------------------------------------------- ShutdownError

RECURSIVE IsTimeoutErrOver(_, _)
\* The loop of IsTimeoutErr over the entries of the map that are still to be
\* visited (a Go map is ranged over in an unspecified order): the first
\* entry that is not ErrShutdownTimeout returns false.
IsTimeoutErrOver(errs, todo) ==
    IF todo = {} THEN TRUE
    ELSE LET n == CHOOSE x \in todo : TRUE
         IN IF errs[n] # "ErrShutdownTimeout" THEN FALSE
            ELSE IsTimeoutErrOver(errs, todo \ {n})

IsTimeoutErr_AnyTimeout(errs) == \E n \in Names : errs[n] = "ErrShutdownTimeout"

\* ShutdownError{ComponentErrors: errs}.IsTimeoutErr()
IsTimeoutErr(errs) ==
    IsTimeoutErrOver(errs, {n \in Names : errs[n] # "absent"})

\* --------------------------------------------------------- WaitForShutdown

\* gs.waitMutex.Unlock(): unlocking an unlocked sync.Mutex is a fatal error
\* that aborts the process.
Unlock ==
    IF waitMutex
    THEN waitMutex' = FALSE /\ crashed' = crashed
    ELSE crashed' = TRUE /\ waitMutex' = waitMutex

\* `success := gs.waitMutex.TryLock()`
WaitForShutdown(p) ==
    /\ ~crashed
    /\ pc[p] = "idle"
    /\ mode' = [mode EXCEPT ![p] = "wait"]
    /\ result' = [result EXCEPT ![p] = "none"]
    /\ componentErrors' = [componentErrors EXCEPT ![p] = NoErrors]
    /\ IF waitMutex
       THEN pc' = [pc EXCEPT ![p] = "wfail"] /\ UNCHANGED waitMutex
       ELSE pc' = [pc EXCEPT ![p] = "wcheck"] /\ waitMutex' = TRUE
    /\ UNCHANGED <<components, disposed, appDone, componentMutex, crashed>>
    /\ UNCHANGED chanVars
    /\ UNCHANGED <<remainingComponents, timeLeft, sleepLeft>>
    /\ UNCHANGED <<received, report, loopComponents, collections>>
    /\ UNCHANGED rdyVars

\* `if !success { return ErrAlreadyWaitingForShutdown }`, and the deferred
\* Unlock runs.
WaitFail(p) ==
    /\ ~crashed
    /\ pc[p] = "wfail"
    /\ Unlock
    /\ result' = [result EXCEPT ![p] = "ErrAlreadyWaitingForShutdown"]
    /\ pc' = [pc EXCEPT ![p] = "idle"]
    /\ UNCHANGED <<components, disposed, appDone, componentMutex>>
    /\ UNCHANGED chanVars
    /\ UNCHANGED <<mode, componentErrors, remainingComponents, timeLeft, sleepLeft>>
    /\ UNCHANGED histVars
    /\ UNCHANGED rdyVars

\* `if gs.disposed { return ErrAlreadyShutdown }`, else the goroutine blocks
\* on the context of signal.NotifyContext.
WaitCheck(p) ==
    /\ ~crashed
    /\ pc[p] = "wcheck"
    /\ IF disposed
       THEN /\ Unlock
            /\ result' = [result EXCEPT ![p] = "ErrAlreadyShutdown"]
            /\ pc' = [pc EXCEPT ![p] = "idle"]
       ELSE /\ pc' = [pc EXCEPT ![p] = "wsignal"]
            /\ UNCHANGED <<waitMutex, crashed, result>>
    /\ UNCHANGED <<components, disposed, appDone, componentMutex>>
    /\ UNCHANGED chanVars
    /\ UNCHANGED <<mode, componentErrors, remainingComponents, timeLeft, sleepLeft>>
    /\ UNCHANGED histVars
    /\ UNCHANGED rdyVars

\* One of options.Signals is delivered: <-ctx.Done() returns and gs.Shutdown()
\* starts (shutdownFunc(), the timeout context).
Trigger(p) ==
    /\ ~crashed
    /\ pc[p] = "wsignal"
    /\ appDone' = ShutdownFunc
    /\ pc' = [pc EXCEPT ![p] = "lock"]
    /\ timeLeft' = [timeLeft EXCEPT ![p] = Timeout]
    /\ UNCHANGED <<components, disposed, componentMutex, waitMutex, crashed>>
    /\ UNCHANGED chanVars
    /\ UNCHANGED <<mode, result, componentErrors, remainingComponents, sleepLeft>>
    /\ UNCHANGED histVars
    /\ UNCHANGED rdyVars

\* WaitForShutdown returns what Shutdown returned; the deferred Unlock runs.
WaitReturn(p) ==
    /\ ~crashed
    /\ pc[p] = "wret"
    /\ Unlock
    /\ pc' = [pc EXCEPT ![p] = "idle"]
    /\ UNCHANGED <<components, disposed, appDone, componentMutex>>
    /\ UNCHANGED chanVars
    /\ UNCHANGED <<mode, result, componentErrors, remainingComponents,
                   timeLeft, sleepLeft>>
    /\ UNCHANGED histVars
    /\ UNCHANGED rdyVars

\* -------------------------------------------------------------------- time

\* A goroutine of the coordinator that can run now runs before the clock
\* moves: the collection loop is scheduled promptly.
CanRun(p) ==
    \/ pc[p] = "poll"
    \/ pc[p] = "sleep" /\ sleepLeft[p] = 0
    \/ pc[p] = "lock" /\ ComponentMutexFree

Dec(x) == IF x > 0 THEN x - 1 ELSE 0

\* One time unit passes.
Tick ==
    /\ ~crashed
    /\ \A p \in Callers : ~CanRun(p)
    /\ timeLeft' = [p \in Callers |->
                     IF pc[p] \in {"lock", "poll", "sleep"}
                     THEN Dec(timeLeft[p]) ELSE timeLeft[p]]
    /\ sleepLeft' = [p \in Callers |->
                     IF pc[p] = "sleep" THEN Dec(sleepLeft[p]) ELSE sleepLeft[p]]
    /\ UNCHANGED gsFields
    /\ UNCHANGED chanVars
    /\ UNCHANGED <<pc, mode, result, componentErrors, remainingComponents>>
    /\ UNCHANGED histVars
    /\ UNCHANGED rdyVars

\* ------------------------------------------------------------ specification

Next ==
    \/ \E n \in Names : RegisterComponent(n)
    \/ \E n \in Names : RegisterComponentWithFn(n)
    \/ \E n \in Names : StartFn(n)
    \/ \E n \in Names : \E v \in ValuesOf(n) : FnReturn(n, v)
    \/ \E n \in Names : ManualClose(n)
    \/ ParentCancel
    \/ \E p \in Callers : ShutdownStart(p)
    \/ \E p \in Callers : WfcLock(p)
    \/ \E p \in Callers : Poll(p)
    \/ \E p \in Callers : Wake(p)
    \/ \E p \in Callers : WaitForShutdown(p)
    \/ \E p \in Callers : WaitFail(p)
    \/ \E p \in Callers : WaitCheck(p)
    \/ \E p \in Callers : Trigger(p)
    \/ \E p \in Callers : WaitReturn(p)
    \/ Tick

Spec == Init /\ [][Next]_vars

\* The scheduler runs every goroutine that can run, and time passes. Nothing
\* makes a shutdown function return or a signal arrive.
Fairness ==
    /\ WF_vars(Tick)
    /\ \A p \in Callers : WF_vars(WfcLock(p)) /\ WF_vars(Poll(p)) /\ WF_vars(Wake(p))
    /\ \A n \in Names : WF_vars(StartFn(n))

FairSpec == Init /\ [][Next]_vars /\ Fairness

\* ================================================================ ReadyCheck

Min(a, b) == IF a < b THEN a ELSE b
BoolStr(b) == IF b THEN "true" ELSE "false"

\* The positions of the registry, and those holding a poll check.
Registered == 1..Len(rdyComponents)
PollChecks == {i \in Registered : rdyComponents[i].kind = "poll"}

PulseReady_Strict(i) ==
    lastPulse[i] # NoPulse /\ lastPulse[i] < rdyComponents[i].expiration

\* PulseComponentCheck.Ready
PulseReady(i) ==
    IF lastPulse[i] = NoPulse THEN FALSE
    ELSE lastPulse[i] <= rdyComponents[i].expiration

\* component.Ready() of the check at position i
ComponentReady(i) ==
    IF rdyComponents[i].kind = "pulse" THEN PulseReady(i) ELSE isReady[i]

RECURSIVE ReadyFrom(_)
\* The loop of ReadyCheck.Ready from position i on: the first check that is
\* not ready returns false.
ReadyFrom(i) ==
    IF i > Len(rdyComponents) THEN TRUE
    ELSE IF ~ComponentReady(i) THEN FALSE
    ELSE ReadyFrom(i + 1)

Ready_FirstOnly == Len(rdyComponents) = 0 \/ ComponentReady(1)

\* ReadyCheck.Ready()
Ready == ReadyFrom(1)

ExplainStore_AlwaysReady(m, name, b) == [m EXCEPT ![name] = "true"]

ExplainStore_KeepFirst(m, name, b) ==
    IF m[name] = "absent" THEN [m EXCEPT ![name] = BoolStr(b)] ELSE m

\* explanation[component.Name()] = component.Ready()
ExplainStore(m, name, b) == [m EXCEPT ![name] = BoolStr(b)]

RECURSIVE ExplainFrom(_, _)
\* The loop of ReadyCheck.Explain from position i on, m being the map so far.
ExplainFrom(i, m) ==
    IF i > Len(rdyComponents) THEN m
    ELSE ExplainFrom(i + 1,
            ExplainStore(m, rdyComponents[i].name, ComponentReady(i)))

\* ReadyCheck.Explain()
Explain == ExplainFrom(1, NoExplanation.m)

\* A step that changes the registry or a check: the results of earlier
\* Ready() and Explain() calls no longer describe the present state.
ForgetResults ==
    /\ readyResult' = "none"
    /\ explanation' = NoExplanation

\* ReadyCheck.RegisterComponent: the append under the write lock. A check made
\* by the registry is made not ready, inactive and without a pulse. The
\* registering actions stop at MaxChecks checks.
RdyRegisterComponent(check) ==
    /\ rdyComponents' = Append(rdyComponents, check)
    /\ ForgetResults
    /\ UNCHANGED <<isReady, isActive, lastPulse>>
    /\ UNCHANGED loopVars
    /\ UNCHANGED loopHist
    /\ UNCHANGED checkHist
    /\ UNCHANGED gsVars

RegisterPollComponent(name, delay) ==
    /\ Len(rdyComponents) < MaxChecks
    /\ RdyRegisterComponent([name |-> name, kind |-> "poll",
                             pollDelay |-> delay, expiration |-> 0])
    /\ UNCHANGED lockVars

RegisterPushComponent(name) ==
    /\ Len(rdyComponents) < MaxChecks
    /\ RdyRegisterComponent([name |-> name, kind |-> "push",
                             pollDelay |-> 0, expiration |-> 0])
    /\ UNCHANGED lockVars

RegisterPulseComponent(name, exp) ==
    /\ Len(rdyComponents) < MaxChecks
    /\ RdyRegisterComponent([name |-> name, kind |-> "pulse",
                             pollDelay |-> 0, expiration |-> exp])
    /\ UNCHANGED lockVars

\* RegisterComponent called with a check written by the user.
RegisterCustomComponent(name) ==
    /\ Len(rdyComponents) < MaxChecks
    /\ RdyRegisterComponent([name |-> name, kind |-> "custom",
                             pollDelay |-> 0, expiration |-> 0])
    /\ UNCHANGED lockVars

\* PushComponentCheck.SetReady(b); for a custom check, its answer becomes b.
SetReady(i, b) ==
    /\ i \in Registered
    /\ rdyComponents[i].kind \in {"push", "custom"}
    /\ isReady' = [isReady EXCEPT ![i] = b]
    /\ ForgetResults
    /\ UNCHANGED <<rdyComponents, isActive, lastPulse>>
    /\ UNCHANGED loopVars
    /\ UNCHANGED loopHist
    /\ UNCHANGED checkHist
    /\ UNCHANGED gsVars
    /\ UNCHANGED lockVars

\* PulseComponentCheck.RecordPulse(): the present instant is stored.
RecordPulse(i) ==
    /\ i \in Registered
    /\ rdyComponents[i].kind = "pulse"
    /\ lastPulse' = [lastPulse EXCEPT ![i] = 0]
    /\ pulsed' = [pulsed EXCEPT ![i] = TRUE]
    /\ ForgetResults
    /\ UNCHANGED <<rdyComponents, isReady, isActive>>
    /\ UNCHANGED loopVars
    /\ UNCHANGED loopHist
    /\ UNCHANGED <<lastProbe, stopPending>>
    /\ UNCHANGED gsVars
    /\ UNCHANGED lockVars

\* A call of ReadyCheck.Ready().
ReadyCall ==
    /\ readyResult' = BoolStr(Ready)
    /\ readyResult' # readyResult
    /\ UNCHANGED explanation
    /\ UNCHANGED rdyFields
    /\ UNCHANGED loopVars
    /\ UNCHANGED loopHist
    /\ UNCHANGED checkHist
    /\ UNCHANGED gsVars
    /\ UNCHANGED lockVars

\* A call of ReadyCheck.Explain().
ExplainCall ==
    /\ ~explanation.called
    /\ explanation' = [called |-> TRUE, m |-> Explain]
    /\ UNCHANGED readyResult
    /\ UNCHANGED rdyFields
    /\ UNCHANGED loopVars
    /\ UNCHANGED loopHist
    /\ UNCHANGED checkHist
    /\ UNCHANGED gsVars
    /\ UNCHANGED lockVars

\* ------------------------------------------------------ PollComponentCheck

\* A goroutine that holds no Start() call in progress.
Free(g) == loopPc[g] \in {"none", "exited"}
FreeLoops == {g \in Loops : Free(g)}

\* A goroutine inside the loop of Start().
Running(g) == loopPc[g] \in {"test", "invoke", "probe", "sleep"}

Rank(S, x) == Cardinality({y \in S : y <= x})

\* `go poll.Start()` for every check of `started`: each gets a goroutine, which
\* has not run yet.
Spawn(started) ==
    LET got(g) == {i \in started : Rank(started, i) = Rank(FreeLoops, g)}
        new(g) == g \in FreeLoops /\ got(g) # {}
    IN /\ Cardinality(started) <= Cardinality(FreeLoops)
       /\ loopPc' = [g \in Loops |-> IF new(g) THEN "spawned" ELSE loopPc[g]]
       /\ loopOf' = [g \in Loops |->
                       IF new(g) THEN CHOOSE i \in got(g) : TRUE ELSE loopOf[g]]
       /\ loopSleep' = [g \in Loops |-> IF new(g) THEN 0 ELSE loopSleep[g]]
       /\ invoked' = [g \in Loops |-> IF new(g) THEN 0 ELSE invoked[g]]
       /\ elapsed' = [g \in Loops |-> IF new(g) THEN 0 ELSE elapsed[g]]
       /\ slow' = [g \in Loops |-> IF new(g) THEN FALSE ELSE slow[g]]
       /\ stopSeen' = [g \in Loops |->
                         IF new(g) \/ loopOf[g] \in started THEN FALSE
                         ELSE stopSeen[g]]
       /\ extra' = [g \in Loops |->
                         IF new(g) \/ loopOf[g] \in started THEN 0 ELSE extra[g]]
       /\ stopPending' = [i \in Checks |->
                            IF i \in started THEN FALSE ELSE stopPending[i]]
       /\ UNCHANGED <<lastProbe, pulsed>>
       /\ UNCHANGED rdyFields
       /\ UNCHANGED rdyResults
       /\ UNCHANGED gsVars

\* ReadyCheck.StartPolling()
StartPolling ==
    /\ PollChecks # {}
    /\ Spawn(PollChecks)
    /\ UNCHANGED lockVars

\* `go pollCheck.Start()` written by the user of the handle.
StartCall(i) ==
    /\ i \in PollChecks
    /\ Spawn({i})
    /\ UNCHANGED lockVars

\* component.isActive.Store(true) at the head of Start().
LoopActivate(g) ==
    /\ loopPc[g] = "spawned"
    /\ isActive' = [isActive EXCEPT ![loopOf[g]] = TRUE]
    /\ loopPc' = [loopPc EXCEPT ![g] = "test"]
    /\ UNCHANGED <<rdyComponents, isReady, lastPulse>>
    /\ UNCHANGED <<loopOf, loopSleep>>
    /\ UNCHANGED rdyResults
    /\ UNCHANGED loopHist
    /\ UNCHANGED checkHist
    /\ UNCHANGED gsVars
    /\ UNCHANGED lockVars

LoopActive_Always(i) == TRUE

\* component.isActive.Load()
LoopActive(i) == isActive[i]

\* `for component.isActive.Load()`: the loop goes on or Start() returns.
LoopTest(g) ==
    /\ loopPc[g] = "test"
    /\ loopPc' = [loopPc EXCEPT ![g] =
                     IF LoopActive(loopOf[g]) THEN "invoke" ELSE "exited"]
    /\ UNCHANGED rdyFields
    /\ UNCHANGED <<loopOf, loopSleep>>
    /\ UNCHANGED rdyResults
    /\ UNCHANGED loopHist
    /\ UNCHANGED checkHist
    /\ UNCHANGED gsVars
    /\ UNCHANGED lockVars

\* component.checkFn() is invoked.
LoopInvoke(g) ==
    /\ loopPc[g] = "invoke"
    /\ loopPc' = [loopPc EXCEPT ![g] = "probe"]
    /\ invoked' = [invoked EXCEPT ![g] = Min(@ + 1, MaxElapsed + 1)]
    /\ extra' = [extra EXCEPT ![g] = IF stopSeen[g] THEN Min(@ + 1, 2) ELSE @]
    /\ UNCHANGED rdyFields
    /\ UNCHANGED <<loopOf, loopSleep>>
    /\ UNCHANGED rdyResults
    /\ UNCHANGED <<elapsed, slow, stopSeen>>
    /\ UNCHANGED checkHist
    /\ UNCHANGED gsVars
    /\ UNCHANGED lockVars

SleepFor_Longer(i) == rdyComponents[i].pollDelay + 1

\* The argument of time.Sleep(component.pollDelay)
SleepFor(i) == rdyComponents[i].pollDelay

ProbeStore_Kept(old, b) == old

\* component.isReady.Store(nextIsReady)
ProbeStore(old, b) == b

\* checkFn returns b, which is stored, and the goroutine goes to sleep.
ProbeDone(g, b) ==
    /\ loopPc[g] = "probe"
    /\ isReady' = [isReady EXCEPT ![loopOf[g]] = ProbeStore(@, b)]
    /\ lastProbe' = [lastProbe EXCEPT ![loopOf[g]] = BoolStr(b)]
    /\ loopPc' = [loopPc EXCEPT ![g] = "sleep"]
    /\ loopSleep' = [loopSleep EXCEPT ![g] = SleepFor(loopOf[g])]
    /\ ForgetResults
    /\ UNCHANGED <<rdyComponents, isActive, lastPulse>>
    /\ UNCHANGED loopOf
    /\ UNCHANGED loopHist
    /\ UNCHANGED <<stopPending, pulsed>>
    /\ UNCHANGED gsVars
    /\ UNCHANGED lockVars

\* time.Sleep(component.pollDelay) returns.
LoopWake(g) ==
    /\ loopPc[g] = "sleep"
    /\ loopSleep[g] = 0
    /\ loopPc' = [loopPc EXCEPT ![g] = "test"]
    /\ UNCHANGED rdyFields
    /\ UNCHANGED <<loopOf, loopSleep>>
    /\ UNCHANGED rdyResults
    /\ UNCHANGED loopHist
    /\ UNCHANGED checkHist
    /\ UNCHANGED gsVars
    /\ UNCHANGED lockVars

StopFlag_Noop(flags, i) == flags

\* component.isActive.Store(false)
StopFlag(flags, i) == [flags EXCEPT ![i] = FALSE]

RECURSIVE StopAll(_, _)
\* The loop of StopPolling over the positions still to visit.
StopAll(flags, todo) ==
    IF todo = {} THEN flags
    ELSE LET i == CHOOSE x \in todo : \A y \in todo : x <= y
         IN StopAll(StopFlag(flags, i), todo \ {i})

\* Stop() is called on every check of `stopped`.
StopChecks(stopped) ==
    /\ isActive' = StopAll(isActive, stopped)
    /\ stopSeen' = [g \in Loops |->
                      IF /\ Running(g) /\ loopOf[g] \in stopped
                         /\ \A h \in Loops \ {g} : loopOf[h] = loopOf[g] => Free(h)
                      THEN TRUE ELSE stopSeen[g]]
    /\ stopPending' = [i \in Checks |->
                      IF i \in stopped THEN TRUE ELSE stopPending[i]]
    /\ UNCHANGED <<rdyComponents, isReady, lastPulse>>
    /\ UNCHANGED loopVars
    /\ UNCHANGED rdyResults
    /\ UNCHANGED <<invoked, elapsed, slow, extra>>
    /\ UNCHANGED <<lastProbe, pulsed>>
    /\ UNCHANGED gsVars

\* PollComponentCheck.Stop()
Stop(i) ==
    /\ i \in PollChecks
    /\ StopChecks({i})
    /\ UNCHANGED lockVars

\* ReadyCheck.StopPolling()
StopPolling ==
    /\ PollChecks # {}
    /\ StopChecks(PollChecks)
    /\ UNCHANGED lockVars

\* The polling loop of a poll check completed a probe with result b (the
\* registry seen without the goroutines of its poll checks).
PollProbed(i, b) ==
    /\ i \in PollChecks
    /\ isReady' = [isReady EXCEPT ![i] = ProbeStore(@, b)]
    /\ lastProbe' = [lastProbe EXCEPT ![i] = BoolStr(b)]
    /\ ForgetResults
    /\ UNCHANGED <<rdyComponents, isActive, lastPulse>>
    /\ UNCHANGED loopVars
    /\ UNCHANGED loopHist
    /\ UNCHANGED <<stopPending, pulsed>>
    /\ UNCHANGED gsVars
    /\ UNCHANGED lockVars

\* A polling goroutine that can run now runs before the clock moves.
LoopCanRun(g) ==
    \/ loopPc[g] \in {"spawned", "test", "invoke"}
    \/ loopPc[g] = "sleep" /\ loopSleep[g] = 0

\* One time unit passes for the registry, its checks and the polling loops.
RdyTick ==
    /\ \A g \in Loops : ~LoopCanRun(g)
    /\ lastPulse' = [i \in Checks |->
                       IF lastPulse[i] = NoPulse THEN NoPulse
                       ELSE Min(lastPulse[i] + 1, MaxAge)]
    /\ loopSleep' = [g \in Loops |->
                       IF loopPc[g] = "sleep" THEN Dec(loopSleep[g])
                       ELSE loopSleep[g]]
    /\ elapsed' = [g \in Loops |->
                       IF Running(g) THEN Min(elapsed[g] + 1, MaxElapsed)
                       ELSE elapsed[g]]
    /\ slow' = [g \in Loops |-> slow[g] \/ loopPc[g] = "probe"]
    /\ ForgetResults
    /\ UNCHANGED <<rdyComponents, isReady, isActive>>
    /\ UNCHANGED <<loopPc, loopOf>>
    /\ UNCHANGED <<invoked, stopSeen, extra>>
    /\ UNCHANGED checkHist
    /\ UNCHANGED gsVars
    /\ UNCHANGED lockVars

\* The registry with its checks; the polling loops are seen by their stores.
ReadyNext ==
    \/ \E n \in CheckNames : \E d \in 1..PollDelay : RegisterPollComponent(n, d)
    \/ \E n \in CheckNames : RegisterPushComponent(n)
    \/ \E n \in CheckNames : \E e \in 0..Expiration : RegisterPulseComponent(n, e)
    \/ \E n \in CheckNames : RegisterCustomComponent(n)
    \/ \E i \in Checks : \E b \in BOOLEAN : SetReady(i, b)
    \/ \E i \in Checks : RecordPulse(i)
    \/ \E i \in Checks : \E b \in BOOLEAN : PollProbed(i, b)
    \/ ReadyCall
    \/ ExplainCall
    \/ RdyTick

ReadySpec == Init /\ [][ReadyNext]_vars

\* One poll check and the goroutines started on it.
PollNext ==
    \/ \E n \in CheckNames : \E d \in 1..PollDelay :
          Len(rdyComponents) = 0 /\ RegisterPollComponent(n, d)
    \/ StartPolling
    \/ \E i \in Checks : StartCall(i)
    \/ \E g \in Loops : LoopActivate(g)
    \/ \E g \in Loops : LoopTest(g)
    \/ \E g \in Loops : LoopInvoke(g)
    \/ \E g \in Loops : \E b \in BOOLEAN : ProbeDone(g, b)
    \/ \E g \in Loops : LoopWake(g)
    \/ \E i \in Checks : Stop(i)
    \/ StopPolling
    \/ RdyTick

PollSpec == Init /\ [][PollNext]_vars

\* The scheduler runs every goroutine that can run, time passes, and every
\* probe returns.
PollFairness ==
    /\ WF_vars(RdyTick)
    /\ \A g \in Loops :
        /\ WF_vars(LoopActivate(g))
        /\ WF_vars(LoopTest(g))
        /\ WF_vars(LoopInvoke(g))
        /\ WF_vars(\E b \in BOOLEAN : ProbeDone(g, b))
        /\ WF_vars(LoopWake(g))

PollFairSpec == Init /\ [][PollNext]_vars /\ PollFairness

\* ------------------------------------ rdy.componentsMutex and its callers

\* The checks the registering goroutines append.
RaceChecks ==
    {[name |-> "x", kind |-> "poll", pollDelay |-> PollDelay, expiration |-> 0],
     [name |-> "y", kind |-> "push", pollDelay |-> 0, expiration |-> 0]}

\* The goroutines between rdy.componentsMutex.Lock() and the append.
Appending == {t \in Threads : opPc[t] = "append"}

\* The rest of the state of the registry, which a lock step leaves alone.
LockStep ==
    /\ UNCHANGED rdyFields
    /\ UNCHANGED loopVars
    /\ UNCHANGED rdyResults
    /\ UNCHANGED loopHist
    /\ UNCHANGED checkHist
    /\ UNCHANGED gsVars

\* rdy.componentsMutex.Lock() in RegisterComponent: no writer and no reader holds the
\* lock.
RegisterLock(t, check) ==
    /\ ~rdyFault
    /\ opPc[t] = "idle"
    /\ Len(rdyComponents) < MaxChecks
    /\ rwWriter = 0
    /\ rwReaders = {}
    /\ rwWriter' = t
    /\ opPc' = [opPc EXCEPT ![t] = "append"]
    /\ opArg' = [opArg EXCEPT ![t] = check]
    /\ UNCHANGED <<rwReaders, seen, rdyFault>>
    /\ LockStep

\* rdy.components = append(rdy.components, check), then the deferred
\* rdy.componentsMutex.Unlock().
RegisterAppend(t) ==
    /\ ~rdyFault
    /\ opPc[t] = "append"
    /\ RdyRegisterComponent(opArg[t])
    /\ rwWriter' = 0
    /\ opPc' = [opPc EXCEPT ![t] = "idle"]
    /\ opArg' = [opArg EXCEPT ![t] = NoCheck]
    /\ UNCHANGED <<rwReaders, seen, rdyFault>>

\* rdy.componentsMutex.RLock(): no writer holds the lock.
RLock(t, op) ==
    /\ ~rdyFault
    /\ opPc[t] = "idle"
    /\ rwWriter = 0
    /\ rwReaders' = rwReaders \cup {t}
    /\ opPc' = [opPc EXCEPT ![t] = op]
    /\ UNCHANGED <<rwWriter, opArg, seen, rdyFault>>
    /\ LockStep

\* The deferred rdy.componentsMutex.RUnlock() of a goroutine that returns.
RUnlock(t) ==
    /\ rwReaders' = rwReaders \ {t}
    /\ opPc' = [opPc EXCEPT ![t] = "idle"]
    /\ UNCHANGED <<rwWriter, opArg, seen, rdyFault>>

\* Ready() takes the read lock.
ReadyRLock(t) ==
    /\ RLock(t, "ready")

\* Ready() scans the collection and returns, the read lock released.
ReadyReturn(t) ==
    /\ ~rdyFault
    /\ opPc[t] = "ready"
    /\ readyResult' = BoolStr(Ready)
    /\ RUnlock(t)
    /\ UNCHANGED explanation
    /\ UNCHANGED rdyFields
    /\ UNCHANGED loopVars
    /\ UNCHANGED loopHist
    /\ UNCHANGED checkHist
    /\ UNCHANGED gsVars

\* Explain() takes the read lock.
ExplainRLock(t) ==
    /\ RLock(t, "explain")

\* Explain() fills its map and returns, the read lock released.
ExplainReturn(t) ==
    /\ ~rdyFault
    /\ opPc[t] = "explain"
    /\ explanation' = [called |-> TRUE, m |-> Explain]
    /\ RUnlock(t)
    /\ UNCHANGED readyResult
    /\ UNCHANGED rdyFields
    /\ UNCHANGED loopVars
    /\ UNCHANGED loopHist
    /\ UNCHANGED checkHist
    /\ UNCHANGED gsVars

\* What `range rdy.components` can read of the slice header when no lock is
\* held: the header as it is; and, while a goroutine is appending, also the
\* header the append writes, or the new length with the old array, so that
\* the range runs past the end of that array (wild).
Headers ==
    {[polls |-> PollChecks, wild |-> FALSE]}
    \cup {[polls |-> PollChecks \cup
                     {i \in {Len(rdyComponents) + 1} : opArg[t].kind = "poll"},
           wild |-> FALSE] : t \in Appending}
    \cup {[polls |-> PollChecks, wild |-> TRUE] : t \in Appending}

\* `for _, component := range rdy.components` of StartPolling and of
\* StopPolling: the slice header is read once, no lock held.
Range(t, op) ==
    /\ ~rdyFault
    /\ opPc[t] = "idle"
    /\ opPc' = [opPc EXCEPT ![t] = op]
    /\ \E h \in Headers : seen' = [seen EXCEPT ![t] = h]
    /\ UNCHANGED <<rwWriter, rwReaders, opArg, rdyFault>>
    /\ LockStep

\* The range is over: the goroutine returns, or the process has read memory
\* that is not the collection.
RangeDone(t) ==
    /\ opPc' = [opPc EXCEPT ![t] = "idle"]
    /\ seen' = [seen EXCEPT ![t] = NoHeader]
    /\ rdyFault' = seen[t].wild
    /\ UNCHANGED <<rwWriter, rwReaders, opArg>>

\* StartPolling() reads the collection.
StartPollingRange(t) ==
    /\ Range(t, "start")

\* StartPolling() launches `go poll.Start()` for the poll checks it read.
StartPollingReturn(t) ==
    /\ ~rdyFault
    /\ opPc[t] = "start"
    /\ Spawn(IF seen[t].wild THEN {} ELSE seen[t].polls)
    /\ RangeDone(t)

\* StopPolling() reads the collection.
StopPollingRange(t) ==
    /\ Range(t, "stop")

\* StopPolling() calls Stop() on the poll checks it read.
StopPollingReturn(t) ==
    /\ ~rdyFault
    /\ opPc[t] = "stop"
    /\ StopChecks(IF seen[t].wild THEN {} ELSE seen[t].polls)
    /\ RangeDone(t)

\* Goroutines that register checks, ask for readiness and start and stop
\* the polling, each method in the steps the lock divides it into.
RaceNext ==
    \/ \E t \in Threads : \E check \in RaceChecks : RegisterLock(t, check)
    \/ \E t \in Threads : RegisterAppend(t)
    \/ \E t \in Threads : ReadyRLock(t)
    \/ \E t \in Threads : ReadyReturn(t)
    \/ \E t \in Threads : ExplainRLock(t)
    \/ \E t \in Threads : ExplainReturn(t)
    \/ \E t \in Threads : StartPollingRange(t)
    \/ \E t \in Threads : StartPollingReturn(t)
    \/ \E t \in Threads : StopPollingRange(t)
    \/ \E t \in Threads : StopPollingReturn(t)

RaceSpec == Init /\ [][RaceNext]_vars

\* ----------------------------------------------------------------- claims

\* The call of p ran the collection loop and returned its outcome.
Collected(p) == result[p] \in {"nil", "ShutdownError"}

\* p is inside Shutdown(): before or in waitForComponents.
InShutdown(p) == pc[p] \in {"lock", "poll", "sleep"}

\* name has reported success: it closed its channel or its send carries nil.
SuccessReported(n) ==
    \/ task[n] = "closed"
    \/ task[n] \in {"sending", "sent"} /\ value[n] = "nil"

C2_TimeoutCauseOnly ==
    \A p \in Callers :
        result[p] = "ShutdownError" =>
            \A n \in loopComponents :
                /\ received[n] = "none" => componentErrors[p][n] = "ErrShutdownTimeout"
                /\ received[n] = "nil" => componentErrors[p][n] = "absent"

C2_Witness ==
    \E p \in Callers : \E n, m \in Names :
        /\ result[p] = "ShutdownError"
        /\ received[n] = "nil" /\ componentErrors[p][n] = "absent"
        /\ received[m] = "none" /\ componentErrors[p][m] = "ErrShutdownTimeout"

\* C3: when the loop received from every component and at least one sent an
\* error, Shutdown() returns an aggregate holding exactly the error each
\* failing component returned, under its name, and nothing else.
C3_ErrorsUnderTheirNames ==
    \A p \in Callers :
        ( /\ Collected(p)
          /\ \A n \in loopComponents : received[n] # "none"
          /\ \E n \in loopComponents : received[n] \in ComponentErrs )
        => /\ result[p] = "ShutdownError"
           /\ \A n \in Names :
                componentErrors[p][n] =
                    IF n \in loopComponents /\ fnRet[n] \in ComponentErrs
                    THEN fnRet[n] ELSE "absent"

C3_Witness ==
    \E p \in Callers : \E n, m \in Names :
        /\ result[p] = "ShutdownError"
        /\ loopComponents = Names
        /\ received[n] = "nil" /\ componentErrors[p][n] = "absent"
        /\ received[m] = ErrOf(m) /\ componentErrors[p][m] = ErrOf(m)

\* C4: every Shutdown() in progress returns, whatever the components do, as
\* long as the process runs; and the iteration that finds the deadline
\* elapsed is the last one.
C4_ShutdownReturns ==
    /\ \A p \in Callers : InShutdown(p) ~> (~InShutdown(p) \/ crashed)
    /\ [][\A p \in Callers :
            (pc[p] = "poll" /\ timeLeft[p] = 0 /\ pc'[p] # pc[p])
            => ~InShutdown(p)']_vars

C4_Witness ==
    \E p \in Callers : \E n, m \in Names :
        /\ result[p] = "ShutdownError"
        /\ task[n] = "running" /\ componentErrors[p][n] = "ErrShutdownTimeout"
        /\ task[m] = "holding" /\ componentErrors[p][m] = "ErrShutdownTimeout"

\* C5: a step of a Shutdown() call on a disposed coordinator neither enters
\* the collection loop nor changes the registry, the disposed flag, any
\* channel or any recorded outcome, and the call returns ErrAlreadyShutdown.
C5_LaterShutdownRejected ==
    [][\A p \in Callers :
        (disposed /\ mode'[p] = "shutdown" /\ pc[p] \in {"idle", "lock"}
            /\ pc'[p] # pc[p])
        => /\ pc'[p] \in {"lock", "idle"}
           /\ pc'[p] = "idle" => result'[p] = "ErrAlreadyShutdown"
           /\ componentErrors'[p] = NoErrors
           /\ \A q \in Callers \ {p} : componentErrors'[q] = componentErrors[q]
           /\ UNCHANGED <<disposed, appDone, components, held, task, value,
                          received, remainingComponents, loopComponents,
                          collections>>]_vars

\* p alone ever called: it collected, and its next Shutdown() was rejected.
C5_Witness ==
    \E p \in Callers :
        /\ disposed /\ collections = 1
        /\ mode[p] = "shutdown" /\ pc[p] = "idle"
        /\ result[p] = "ErrAlreadyShutdown"
        /\ \A q \in Callers \ {p} : mode[q] = "none"
        /\ \E n \in Names : received[n] # "none"

\* C6: the collection loop is entered at most once; at most one call is in
\* it or has returned its outcome, and a call that returns ErrAlreadyShutdown
\* found the coordinator disposed by the collecting call.
C6_CollectsAtMostOnce ==
    /\ collections <= 1
    /\ disposed => collections = 1
    /\ Cardinality({p \in Callers : Collected(p) \/ pc[p] \in {"poll", "sleep"}}) <= 1
    /\ \A p \in Callers :
        /\ pc[p] \in {"poll", "sleep"} => componentMutex = p /\ ~disposed
        /\ Collected(p) => collections = 1 /\ disposed
        /\ result[p] = "ErrAlreadyShutdown" => collections = 1 /\ disposed

\* A Shutdown() call collected while a triggered WaitForShutdown() lost.
C6_Witness ==
    \E p, q \in Callers :
        /\ mode[p] = "shutdown" /\ Collected(p)
        /\ mode[q] = "wait" /\ pc[q] = "wret" /\ result[q] = "ErrAlreadyShutdown"

\* A WaitForShutdown() call that got past the TryLock check and has not
\* returned.
PastLockCheck(p) ==
    /\ mode[p] = "wait"
    /\ pc[p] \in {"wcheck", "wsignal", "lock", "poll", "sleep", "wret"}

\* C7 as stated: at no time are two WaitForShutdown() calls past the lock
\* check.
C7_OneWaiterPastLock ==
    Cardinality({p \in Callers : PastLockCheck(p)}) <= 1

\* C8: once a name is registered its entry is never altered and is the
\* channel the first registration returned, which is the channel the
\* collection loop reads; a registration that returns the conflict error
\* returns no channel, and it is the one that adds no entry.
C8_DuplicateRejected ==
    /\ [](\A n \in Names :
            /\ components[n] # NoChan => components[n] = held[n]
            /\ \A p \in Callers :
                remainingComponents[p][n] \in {NoChan, held[n]})
    /\ [](regResult.err = "ErrComponentAlreadyRegistered" => regResult.chan = NoChan)
    /\ [][\A n \in Names :
            components[n] # NoChan => components'[n] = components[n]]_vars
    /\ [][regResult' # regResult =>
            /\ regResult'.err = "ErrComponentAlreadyRegistered"
                   <=> (components' = components /\ held' = held /\ task' = task)
            /\ regResult'.err = "nil" =>
                   \E n \in Names : /\ components[n] = NoChan
                                    /\ components'[n] = regResult'.chan
                                    /\ held'[n] = regResult'.chan]_vars

\* A duplicate registration was rejected, and the collection loop that
\* started afterwards has received from the first channel.
C8_Witness ==
    /\ regResult = [err |-> "ErrComponentAlreadyRegistered", chan |-> NoChan]
    /\ \E p \in Callers : pc[p] \in {"poll", "sleep"}
    /\ \E n \in Names : components[n] = FirstChan /\ received[n] # "none"

\* C9 as stated: a goroutine blocked forwarding its result can still be
\* received from: it is never left sending on a disposed coordinator, whose
\* collection loop has returned and never runs again.
C9_SenderNeverStranded ==
    \A n \in Names : task[n] = "sending" => ~disposed

\* C10: shutdownFn runs at most once and only after the done-signal fired,
\* only for components of RegisterComponentWithFn; what it returned is the
\* value sent and received; and once the done-signal has fired it is invoked,
\* as long as the process runs.
C10_FnOnceAfterDone ==
    /\ [](\A n \in Names :
            /\ fnCalls[n] <= 1
            /\ fnCalls[n] = 1 => appDone /\ kind[n] = "fn"
            /\ task[n] \in {"sending", "sent"} => value[n] = fnRet[n]
            /\ (kind[n] = "fn" /\ received[n] # "none") => received[n] = fnRet[n])
    /\ \A n \in Names :
            (kind[n] = "fn" /\ appDone) ~> (fnCalls[n] = 1 \/ crashed)

C10_Witness ==
    \E n \in Names :
        /\ kind[n] = "fn" /\ fnCalls[n] = 1
        /\ task[n] = "sent" /\ fnRet[n] = ErrOf(n) /\ received[n] = ErrOf(n)

\* The causes recorded in the aggregate returned to p.
RecordedCauses(p) == {componentErrors[p][n] : n \in Names} \ {"absent"}

\* C11: for every aggregate failure returned by Shutdown(), IsTimeoutErr() is
\* true exactly when every recorded cause is the timeout cause, which is
\* exactly when the loop received no error from any component; an aggregate
\* holding an error received earlier and a timeout cause gives false.
C11_IsTimeoutIffAllTimeout ==
    \A p \in Callers :
        result[p] = "ShutdownError" =>
            /\ IsTimeoutErr(componentErrors[p])
                   <=> RecordedCauses(p) \subseteq {"ErrShutdownTimeout"}
            /\ IsTimeoutErr(componentErrors[p])
                   <=> \A n \in Names : received[n] \notin ComponentErrs
            /\ ( /\ "ErrShutdownTimeout" \in RecordedCauses(p)
                 /\ RecordedCauses(p) \cap ComponentErrs # {} )
               => ~IsTimeoutErr(componentErrors[p])

\* The deadline aggregate holds an error received earlier from one component
\* and the timeout cause for the other.
C11_Witness ==
    \E p \in Callers : \E n, m \in Names :
        /\ result[p] = "ShutdownError"
        /\ received[n] = ErrOf(n) /\ componentErrors[p][n] = ErrOf(n)
        /\ received[m] = "none" /\ componentErrors[p][m] = "ErrShutdownTimeout"
        /\ ~IsTimeoutErr(componentErrors[p])

\* C12 as stated: a WaitForShutdown() call blocked waiting while the
\* coordinator's context is cancelled stops waiting, as long as the process
\* runs, whether or not a signal is ever delivered.
C12_CancelledContextEndsWait ==
    \A p \in Callers :
        (mode[p] = "wait" /\ pc[p] = "wsignal" /\ appDone)
            ~> (pc[p] # "wsignal" \/ crashed)

\* C22: the coordinator only moves forward: in every state a disposed
\* coordinator has its done-signal fired, no step clears the done-signal and
\* no step clears the disposed flag.
C22_ForwardOnly ==
    /\ [](disposed => appDone)
    /\ [][appDone => appDone']_vars
    /\ [][disposed => disposed']_vars

\* A Shutdown() call has returned from its collection and left the
\* coordinator disposed, the done-signal fired.
C22_Witness ==
    /\ disposed
    /\ appDone
    /\ \E p \in Callers :
        mode[p] = "shutdown" /\ pc[p] = "idle" /\ Collected(p)

\* C23 as stated: a WaitForShutdown() call that starts on a disposed
\* coordinator gets past the lock check, and from there returns
\* ErrAlreadyShutdown in its next step, the process alive, the done-signal
\* and the count of collection loops as they were.
C23_DisposedWaitRejected ==
    /\ [][\A p \in Callers :
            (disposed /\ pc[p] = "idle" /\ pc'[p] # "idle" /\ mode'[p] = "wait")
                => pc'[p] = "wcheck"]_vars
    /\ [][\A p \in Callers :
            (disposed /\ pc[p] = "wcheck" /\ pc'[p] # "wcheck")
                => /\ pc'[p] = "idle"
                   /\ result'[p] = "ErrAlreadyShutdown"
                   /\ ~crashed'
                   /\ UNCHANGED <<appDone, collections>>]_vars

\* C24 as stated: a WaitForShutdown() call whose TryLock failed returns
\* without changing the wait lock, and the process is never aborted by an
\* unlock of the lock while it is not held.
C24_UnlockOnlyByHolder ==
    /\ [][\A p \in Callers :
            (pc[p] = "wfail" /\ pc'[p] # "wfail") => waitMutex' = waitMutex]_vars
    /\ [](~crashed)

\* ------------------------------------------------------ claims (ReadyCheck)

\* C13: in every registry state Ready() is true exactly when every registered
\* check reports ready at that moment, and so is what a Ready() call returned
\* on the state: stopping at the first check that is not ready gives the
\* result of evaluating them all.
C13_ReadyIsConjunction ==
    /\ Ready <=> \A i \in Registered : ComponentReady(i)
    /\ readyResult # "none" =>
           readyResult = BoolStr(\A i \in Registered : ComponentReady(i))

\* Ready() returned false on a registry whose first check is ready and whose
\* second one is not.
C13_Witness ==
    /\ Len(rdyComponents) = 2
    /\ ComponentReady(1) /\ ~ComponentReady(2)
    /\ rdyComponents[1].kind # rdyComponents[2].kind
    /\ readyResult = "false"

\* The positions registered under a name.
Named(n) == {i \in Registered : rdyComponents[i].name = n}

\* C14: the map returned by Explain() has an entry for exactly the names
\* under which a check is registered, and the entry of a name is the present
\* readiness of the check registered last under it.
C14_ExplainLastPerName ==
    explanation.called =>
        \A n \in CheckNames :
            IF Named(n) = {} THEN explanation.m[n] = "absent"
            ELSE LET last == CHOOSE i \in Named(n) : \A j \in Named(n) : j <= i
                 IN explanation.m[n] = BoolStr(ComponentReady(last))

\* Explain() ran on two checks of one name, the first ready and the last not.
C14_Witness ==
    /\ explanation.called
    /\ Len(rdyComponents) = 2
    /\ rdyComponents[1].name = rdyComponents[2].name
    /\ ComponentReady(1) /\ ~ComponentReady(2)
    /\ explanation.m[rdyComponents[1].name] = "false"

PulseChecks == {i \in Registered : rdyComponents[i].kind = "pulse"}

\* C15: a pulse check is ready exactly when a pulse was recorded and the time
\* since the last one is at most the expiration; never before the first
\* pulse; recording a pulse makes it ready at that instant whatever the
\* expiration; with a zero expiration no check stays ready once time passes;
\* and a check that is not ready becomes ready only by a new pulse.
C15_PulseWindow ==
    /\ [](\A i \in PulseChecks :
            /\ ~pulsed[i] => ~PulseReady(i)
            /\ PulseReady(i) <=>
                   (pulsed[i] /\ lastPulse[i] <= rdyComponents[i].expiration))
    /\ [][\A i \in PulseChecks :
            /\ (pulsed'[i] /\ lastPulse'[i] = 0) => PulseReady(i)'
            /\ (lastPulse[i] # NoPulse /\ lastPulse'[i] > lastPulse[i]
                    /\ rdyComponents[i].expiration = 0) => ~PulseReady(i)'
            /\ (~PulseReady(i) /\ PulseReady(i)') => lastPulse'[i] = 0]_vars

\* A check of zero expiration is ready at the instant of its pulse while a
\* check of the longest expiration has outlived its window.
C15_Witness ==
    \E i, j \in PulseChecks :
        /\ rdyComponents[i].expiration = 0
        /\ pulsed[i] /\ lastPulse[i] = 0 /\ PulseReady(i)
        /\ rdyComponents[j].expiration = Expiration
        /\ pulsed[j] /\ lastPulse[j] = MaxAge /\ ~PulseReady(j)

\* C16: after Stop() is called on a poll check whose only Start() goroutine
\* is running its loop, and until Start() is issued again, the loop invokes
\* the probe at most once more; a goroutine that left the loop invokes
\* nothing and stays out.
C16_AtMostOneMoreProbe ==
    /\ [](\A g \in Loops : extra[g] <= 1)
    /\ [][\A g \in Loops :
            (loopPc[g] = "exited" /\ loopPc'[g] # "spawned")
            => /\ loopPc'[g] = "exited"
               /\ invoked'[g] = invoked[g]
               /\ lastProbe'[loopOf[g]] = lastProbe[loopOf[g]]
                     \/ \E h \in Loops \ {g} : loopPc[h] = "probe"]_vars

\* The loop had read the flag when Stop() came, probed once more and exited.
C16_Witness ==
    \E g \in Loops :
        /\ loopPc[g] = "exited"
        /\ stopSeen[g] /\ extra[g] = 1
        /\ invoked[g] >= 2

\* A loop that runs and has not been asked to stop.
Polling(g) ==
    /\ Running(g)
    /\ isActive[loopOf[g]] /\ ~stopPending[loopOf[g]]

C18_PollReadyIsLastProbe ==
    \A i \in PollChecks :
        /\ lastProbe[i] = "none" => (~ComponentReady(i) /\ ~Ready)
        /\ lastProbe[i] # "none" => BoolStr(ComponentReady(i)) = lastProbe[i]

\* The second probe of a loop has completed with true.
C18_Witness ==
    \E i \in PollChecks : \E g \in Loops :
        /\ loopOf[g] = i /\ loopPc[g] = "sleep" /\ invoked[g] = 2
        /\ lastProbe[i] = "true" /\ ComponentReady(i) /\ Ready

\* C19 as stated: once Stop() was requested on a check and no Start() is
\* issued afterwards, every goroutine in Start() on that check returns.
C19_StopEndsEveryLoop ==
    \A i \in Checks :
        stopPending[i] ~>
            (~stopPending[i] \/ \A g \in Loops : loopOf[g] = i => Free(g))

\* C20: a step that stops a check leaves the check inactive and changes
\* nothing else of the registry, its checks and the goroutines; and while no
\* goroutine is in Start() on a check its readiness does not change: it
\* stays the result of the last probe.
C20_StopKeepsReadiness ==
    /\ [][\A i \in Checks :
            ((stopPending'[i] /\ ~stopPending[i]) \/ (isActive[i] /\ ~isActive'[i]))
            => /\ ~isActive'[i]
               /\ UNCHANGED <<rdyComponents, isReady, lastPulse, loopVars,
                              lastProbe>>]_vars
    /\ [][\A i \in PollChecks :
            (\A g \in Loops : loopOf[g] = i => Free(g))
            => /\ isReady'[i] = isReady[i]
               /\ lastProbe[i] # "none" => BoolStr(isReady'[i]) = lastProbe[i]]_vars

\* After Stop() the loop has exited and the check is still ready.
C20_Witness ==
    \E i \in PollChecks : \E g \in Loops :
        /\ loopOf[g] = i /\ loopPc[g] = "exited"
        /\ \A h \in Loops : loopOf[h] = i => Free(h)
        /\ stopPending[i] /\ ~isActive[i]
        /\ isReady[i] /\ lastProbe[i] = "true"

\* The checks registered under a name that a later registration repeats:
\* Explain() overwrites their entry.
Shadowed == {i \in Registered : \E j \in Named(rdyComponents[i].name) : j > i}

\* C25 as stated: with the results of Ready() and Explain() on one registry
\* state at hand, Ready() returned true exactly when every value of the map
\* of Explain() is true.
C25_ReadyIffExplainAllTrue ==
    /\ Ready <=> \A n \in CheckNames : Explain[n] # "false"
    /\ (readyResult # "none" /\ explanation.called) =>
           (readyResult = "true" <=>
                \A n \in CheckNames : explanation.m[n] # "false")

\* C25, amended: Ready() returned true exactly when every value of the map
\* of Explain() is true and every check whose name was registered again
\* later is ready; so the two agree whenever no name is repeated, and
\* Ready() true always means every value is true.
C25_ReadyIffExplainAndShadowed ==
    /\ Ready <=> /\ \A n \in CheckNames : Explain[n] # "false"
                 /\ \A i \in Shadowed : ComponentReady(i)
    /\ (readyResult # "none" /\ explanation.called) =>
           (readyResult = "true" <=>
                /\ \A n \in CheckNames : explanation.m[n] # "false"
                /\ \A i \in Shadowed : ComponentReady(i))

\* Ready() and Explain() ran on two checks of one name, the first not ready
\* and the last ready: Ready() returned false and the map holds only true.
C25_Witness ==
    /\ Len(rdyComponents) = 2
    /\ rdyComponents[1].name = rdyComponents[2].name
    /\ ~ComponentReady(1) /\ ComponentReady(2)
    /\ readyResult = "false"
    /\ explanation.called
    /\ explanation.m[rdyComponents[1].name] = "true"

\* C26 as stated: at no time do two goroutines run the loop of Start() for
\* one poll check.
C26_OneLoopPerCheck ==
    \A i \in Checks :
        Cardinality({g \in Loops : loopOf[g] = i /\ Running(g)}) <= 1

\* A goroutine that is reading rdy.components.
Reading(t) == opPc[t] \in {"ready", "explain", "start", "stop"}

\* C21 as stated: a goroutine that reads the collection of checks in Ready,
\* Explain, StartPolling or StopPolling holds the registry lock, and no such
\* read overlaps the append of a registration.
C21_ReadsHoldLock ==
    /\ \A t \in Threads : Reading(t) => t \in rwReaders
    /\ \A t \in Threads : Reading(t) => Appending = {}
    /\ ~rdyFault

====
